---- MODULE Spec2Model ----
(***************************************************************************)
(* Model of the competitor-analysis report generator:                      *)
(*   - the response parsers of pipelines/competitor_pipeline.py            *)
(*     (_parse_response, _parse_batch_response),                           *)
(*   - the report renderer of services/html_generator.py                   *)
(*     (format_html_from_json and its _format_* helpers),                  *)
(*   - the batch orchestrator (analyze_multiple_competitors and its        *)
(*     fallback) and the single-item analysis (analyze_competitor) of      *)
(*     pipelines/competitor_pipeline.py,                                   *)
(*   - the saving of the reports by the callers of main.py (save_report).  *)
(*                                                                         *)
(* A Python string is a sequence of atoms (an atom is a piece of text that *)
(* the program never looks inside: a word, a marker, a bracket).  The      *)
(* response text, every JSON string and every piece of rendered HTML is    *)
(* such a sequence.                                                        *)
(***************************************************************************)
EXTENDS Integers, Sequences, FiniteSets, TLC

VARIABLES
    \* ---- parser harness
    text,        \* the response text handed to the parsers
    single,      \* outcome of _parse_response(text)
    wrapped,     \* outcome of _parse_response on text wrapped in a json fence
    batch,       \* outcome of _parse_batch_response(text)
    \* ---- renderer harness
    record,      \* the record handed to format_html_from_json
    edits,       \* how many fields of record differ from the base record
    today1,      \* the clock (a date) at the first invocation
    today2,      \* the clock at the second invocation
    html1,       \* outcome of the first invocation
    html2,       \* outcome of the second invocation
    \* ---- orchestrator
    companies,   \* the input of analyze_multiple_competitors
    pc,          \* where the orchestrator is
    idx,         \* fallback loop: position of the next input, batch loop: next element
    calls,       \* the generation calls issued so far, in order
    response,    \* the answer to the batch call
    answer,      \* fallback: the answer to the current input's own call
    batch_data,  \* the parsed batch array
    results,     \* the mapping under construction: sequence of <<key, value>>
    trace,       \* the steps taken so far, in order
    outcome,     \* how the call ended: "running", "returned", "raised"
    \* ---- saving the reports (main.py)
    report_key,  \* the key (company_name) of the report being saved
    now,         \* the clock (a timestamp) when save_report is called
    caller,      \* the function of main.py that saves the report
    filename,    \* the filename argument the caller passes to save_report
    saved        \* the path save_report wrote to

parseVars == <<text, single, wrapped, batch>>
renderVars == <<record, edits, today1, today2, html1, html2>>
orchVars ==
    <<companies, pc, idx, calls, response, answer, batch_data, results, trace, outcome>>
saveVars == <<report_key, now, caller, filename, saved>>
vars == <<parseVars, renderVars, orchVars, saveVars>>

--------------------------------------------------------------------------
(* Python values.  JSON null, strings, integers, objects and arrays.       *)

Null == [t |-> "null"]
Str(chars) == [t |-> "str", chars |-> chars]
Num(n) == [t |-> "int", n |-> n]
Dict(items) == [t |-> "dict", items |-> items]
List(elems) == [t |-> "list", elems |-> elems]

IsNull(v) == v.t = "null"
IsStr(v) == v.t = "str"
IsDict(v) == v.t = "dict"
IsList(v) == v.t = "list"

(* dict.get(key, default): d is the item list of a dict, in insertion order. *)
RECURSIVE Get(_, _, _)
Get(items, key, default) ==
    IF items = <<>> THEN default
    ELSE IF Head(items)[1] = key THEN Head(items)[2]
    ELSE Get(Tail(items), key, default)

HasKey(items, key) == \E i \in 1..Len(items) : items[i][1] = key

(* Python truthiness of a JSON value: None, "", 0, {} and [] are falsy. *)
Truthy(v) ==
    CASE v.t = "null" -> FALSE
      [] v.t = "str" -> v.chars # <<>>
      [] v.t = "int" -> v.n # 0
      [] v.t = "dict" -> v.items # <<>>
      [] v.t = "list" -> v.elems # <<>>

--------------------------------------------------------------------------
(* Text: atoms and the str operations the parsers use.                     *)

(* The triple-backtick marker, one atom (a string literal of this language *)
(* cannot hold a backtick), and the language tag that may follow it.       *)
FENCE == "<triple-backtick>"
TAG == "json"
NL == "\n"
FF == "\f"
QUOTE == "\""
LBRACKET == "["
RBRACKET == "]"
COMMA == ","

(* str.strip() removes every Unicode whitespace character; the JSON        *)
(* grammar accepts only space, tab, newline and carriage return.  A form   *)
(* feed is stripped by the former and rejected by the latter.              *)
PyWhitespace == {NL, FF}
JsonWhitespace == {NL}
ControlChars == {NL, FF}

IsPrefixAt(s, pat, i) ==
    /\ i + Len(pat) - 1 <= Len(s)
    /\ \A k \in 1..Len(pat) : s[i + k - 1] = pat[k]

(* pat in s *)
Contains(s, pat) == \E i \in 1..Len(s) : IsPrefixAt(s, pat, i)

FirstIndex(s, pat) ==
    CHOOSE i \in 1..Len(s) :
        /\ IsPrefixAt(s, pat, i)
        /\ \A j \in 1..(i - 1) : ~IsPrefixAt(s, pat, j)

(* s.split(pat): the pieces between the non-overlapping occurrences of     *)
(* pat, found left to right.                                               *)
RECURSIVE Split(_, _)
Split(s, pat) ==
    IF ~Contains(s, pat) THEN <<s>>
    ELSE LET i == FirstIndex(s, pat)
         IN  <<SubSeq(s, 1, i - 1)>> \o Split(SubSeq(s, i + Len(pat), Len(s)), pat)

RECURSIVE LStrip(_)
LStrip(s) ==
    IF s # <<>> /\ Head(s) \in PyWhitespace THEN LStrip(Tail(s)) ELSE s

RECURSIVE RStrip(_)
RStrip(s) ==
    IF s # <<>> /\ s[Len(s)] \in PyWhitespace
    THEN RStrip(SubSeq(s, 1, Len(s) - 1)) ELSE s

(* s.strip() *)
Strip(s) == RStrip(LStrip(s))

(* s[:n] *)
Take(s, n) == SubSeq(s, 1, IF Len(s) < n THEN Len(s) ELSE n)

--------------------------------------------------------------------------
(* Records.  BaseRecord is a complete record in the shape of               *)
(* COMPETITOR_ANALYSIS_SCHEMA; the other records are edits of it.          *)

S(atom) == Str(<<atom>>)
EmptyStr == Str(<<>>)
EmptyDict == Dict(<<>>)
EmptyList == List(<<>>)

(* d with key removed *)
Del(items, key) == SelectSeq(items, LAMBDA kv : kv[1] # key)

(* d[key] = value: an existing key keeps its place, a new one goes last *)
Put(items, key, value) ==
    IF HasKey(items, key)
    THEN [i \in 1..Len(items) |->
            IF items[i][1] = key THEN <<key, value>> ELSE items[i]]
    ELSE Append(items, <<key, value>>)

Product1 ==
    Dict(<< <<"name", S("Cloud Platform")>>,
            <<"description", S("Enterprise cloud")>>,
            <<"category", S("Infrastructure")>> >>)
Product2 ==
    Dict(<< <<"name", Null>>, <<"description", S("Billing API")>> >>)
News1 ==
    Dict(<< <<"title", S("Acme raises funds")>>, <<"date", S("2024-11-02")>>,
            <<"summary", S("Series C")>>, <<"source", S("Wire")>> >>)
News2 ==
    Dict(<< <<"title", S("Acme opens office")>>, <<"date", Null>> >>)

BaseOverview ==
    << <<"description", S("A provider of cloud solutions")>>,
       <<"founded_year", Num(2010)>>,
       <<"headquarters", S("San Francisco, CA")>>,
       <<"size", S("500-1000 employees")>> >>
BaseMarket ==
    << <<"target_market", S("Enterprises")>>,
       <<"market_share", S("12%")>>,
       <<"key_competitors", List(<<S("Rival")>>)>> >>
BaseSocial ==
    << <<"linkedin", S("https://linkedin.test/acme")>>,
       <<"twitter", S("https://twitter.test/acme")>>,
       <<"facebook", S("https://facebook.test/acme")>> >>
BaseRecord ==
    << <<"company_name", S("Acme")>>,
       <<"website", S("https://acme.test")>>,
       <<"analysis_date", S("2024-12-01")>>,
       <<"overview", Dict(BaseOverview)>>,
       <<"products_services", List(<<Product1>>)>>,
       <<"market_position", Dict(BaseMarket)>>,
       <<"strengths", List(<<S("Brand")>>)>>,
       <<"weaknesses", List(<<S("Price")>>)>>,
       <<"recent_news", List(<<News1>>)>>,
       <<"pricing_model", S("Subscription")>>,
       <<"technology_stack", List(<<S("Python")>>)>>,
       <<"social_media_presence", Dict(BaseSocial)>> >>

(* The object literals a response text may hold, each one atom of the text, *)
(* and the dict each decodes to.                                            *)
ObjectAtoms == {"{}", "{A}", "{B}", "{A2}", "{anon}", "{bad}"}
ObjectLiteral(atom) ==
    CASE atom = "{}" -> <<>>
      [] atom = "{A}" -> Put(BaseRecord, "company_name", S("A"))
      [] atom = "{B}" -> Put(BaseRecord, "company_name", S("B"))
      [] atom = "{A2}" ->
            Put(Put(BaseRecord, "company_name", S("A")), "pricing_model", S("Freemium"))
      [] atom = "{anon}" -> Del(BaseRecord, "company_name")
      [] atom = "{bad}" -> Put(Put(BaseRecord, "company_name", S("B")), "overview", Null)

--------------------------------------------------------------------------
(* json.loads over a text: a recursive-descent decoder of the JSON grammar *)
(* for objects (one atom each), arrays and strings.                        *)

RECURSIVE SkipWs(_, _)
SkipWs(s, i) ==
    IF i <= Len(s) /\ s[i] \in JsonWhitespace THEN SkipWs(s, i + 1) ELSE i

DecodeError == [ok |-> FALSE]
Decoded(v, next) == [ok |-> TRUE, v |-> v, next |-> next]

(* the index of the quote closing the string opened at i, 0 when unclosed *)
ClosingQuote(s, i) ==
    IF \E j \in (i + 1)..Len(s) : s[j] = QUOTE
    THEN CHOOSE j \in (i + 1)..Len(s) :
            s[j] = QUOTE /\ \A k \in (i + 1)..(j - 1) : s[k] # QUOTE
    ELSE 0

RECURSIVE ParseValue(_, _)
RECURSIVE ParseElems(_, _, _)
ParseValue(s, i) ==
    IF i > Len(s) THEN DecodeError
    ELSE IF s[i] \in ObjectAtoms THEN Decoded(Dict(ObjectLiteral(s[i])), i + 1)
    ELSE IF s[i] = QUOTE THEN
        LET j == ClosingQuote(s, i)
        IN  IF j = 0 \/ \E k \in (i + 1)..(j - 1) : s[k] \in ControlChars
            THEN DecodeError
            ELSE Decoded(Str(SubSeq(s, i + 1, j - 1)), j + 1)
    ELSE IF s[i] = LBRACKET THEN
        LET j == SkipWs(s, i + 1)
        IN  IF j <= Len(s) /\ s[j] = RBRACKET
            THEN Decoded(List(<<>>), j + 1)
            ELSE ParseElems(s, j, <<>>)
    ELSE DecodeError
ParseElems(s, i, acc) ==
    LET r == ParseValue(s, i)
    IN  IF ~r.ok THEN DecodeError
        ELSE LET j == SkipWs(s, r.next)
             IN  IF j > Len(s) THEN DecodeError
                 ELSE IF s[j] = RBRACKET
                      THEN Decoded(List(Append(acc, r.v)), j + 1)
                 ELSE IF s[j] = COMMA
                      THEN ParseElems(s, SkipWs(s, j + 1), Append(acc, r.v))
                 ELSE DecodeError

(* json.loads(s): [ok |-> TRUE, v |-> value] or, for json.JSONDecodeError, *)
(* [ok |-> FALSE].                                                         *)
json_loads(s) ==
    LET r == ParseValue(s, SkipWs(s, 1))
    IN  IF r.ok /\ SkipWs(s, r.next) = Len(s) + 1
        THEN [ok |-> TRUE, v |-> r.v]
        ELSE DecodeError

--------------------------------------------------------------------------
(* The response parsers.  An outcome is [ok |-> TRUE, value |-> v] for a   *)
(* return, or [ok |-> FALSE, exc |-> kind, message |-> text, printed |->   *)
(* text] for a raise.                                                      *)

PreviewLen == 500

Returned(v) == [ok |-> TRUE, value |-> v]
Raised(kind, message, printed) ==
    [ok |-> FALSE, exc |-> kind, message |-> message, printed |-> printed]

(* str(e) of a json.JSONDecodeError: a position, never the text itself *)
DecodeErrorMessage == <<"Expecting value: line 1 column 1 (char 0)">>

(* the fence extraction shared by both parsers (lines 106-111, 239-244) *)
ExtractFenced(response_text) ==
    IF Contains(response_text, <<FENCE, TAG>>)
    THEN Split(Split(response_text, <<FENCE, TAG>>)[2], <<FENCE>>)[1]
    ELSE IF Contains(response_text, <<FENCE>>)
    THEN Split(Split(response_text, <<FENCE>>)[2], <<FENCE>>)[1]
    ELSE response_text

(* _parse_response without its first step: the fence is looked for before  *)
(* the full text is tried, as _parse_batch_response does.                  *)
_parse_response_fence_first(response_text) ==
    LET second == json_loads(Strip(ExtractFenced(response_text)))
    IN  IF second.ok THEN Returned(second.v)
        ELSE Raised("ValueError",
                    <<"Failed to parse agent response: ">> \o DecodeErrorMessage,
                    <<"Raw response preview: ">>
                        \o Take(response_text, PreviewLen) \o <<"...">>)

(* _parse_response printing the whole raw text instead of its first 500   *)
(* characters                                                              *)
_parse_response_whole_preview(response_text) ==
    LET direct == json_loads(response_text)
    IN  IF direct.ok THEN Returned(direct.v)
        ELSE LET json_text == ExtractFenced(response_text)
                 second == json_loads(Strip(json_text))
             IN  IF second.ok THEN Returned(second.v)
                 ELSE Raised("ValueError",
                             <<"Failed to parse agent response: ">> \o DecodeErrorMessage,
                             <<"Raw response preview: ">> \o response_text \o <<"...">>)

_parse_response(response_text) ==
    LET direct == json_loads(response_text)
    IN  IF direct.ok THEN Returned(direct.v)
        ELSE LET json_text == ExtractFenced(response_text)
                 second == json_loads(Strip(json_text))
             IN  IF second.ok THEN Returned(second.v)
                 ELSE Raised("ValueError",
                             <<"Failed to parse agent response: ">> \o DecodeErrorMessage,
                             <<"Raw response preview: ">>
                                 \o Take(response_text, PreviewLen) \o <<"...">>)

(* the exception classes the parsers raise, each with its base classes:   *)
(* json.JSONDecodeError is a subclass of ValueError                        *)
Bases(kind) ==
    CASE kind = "JSONDecodeError" -> {"JSONDecodeError", "ValueError", "Exception"}
      [] kind = "ValueError" -> {"ValueError", "Exception"}
      [] OTHER -> {kind, "Exception"}

(* whether the clause "except handler" catches an exception of class kind *)
Catches(handler, kind) == handler \in Bases(kind)

(* _parse_batch_response without the validation of lines 249-250 *)
_parse_batch_response_no_type_check(response_text) ==
    LET json_text == ExtractFenced(response_text)
        decoded == json_loads(Strip(json_text))
    IN  IF ~decoded.ok
        THEN Raised("JSONDecodeError", DecodeErrorMessage, <<>>)
        ELSE Returned(decoded.v)

_parse_batch_response(response_text) ==
    LET json_text == ExtractFenced(response_text)
        decoded == json_loads(Strip(json_text))
    IN  IF ~decoded.ok
        THEN Raised("JSONDecodeError", DecodeErrorMessage, <<>>)
        ELSE IF ~IsList(decoded.v)
        THEN Raised("ValueError", <<"Response is not a JSON array">>, <<>>)
        ELSE Returned(decoded.v)

--------------------------------------------------------------------------
(* The report renderer.  Rendered HTML is a sequence of chunks; a chunk is *)
(* a tuple <<kind, text, ...>> whose kind names the markup and whose texts *)
(* are the strings substituted into it.  The page is the record of what    *)
(* goes into each placeholder of HTML_TEMPLATE.  An outcome is             *)
(* [ok |-> TRUE, html |-> h] or [ok |-> FALSE, exc |-> kind].              *)

Html(h) == [ok |-> TRUE, html |-> h]
Raise(kind) == [ok |-> FALSE, exc |-> kind]

(* str(v), as an f-string or str.format renders a value *)
PyStr(v) ==
    CASE v.t = "null" -> <<"None">>
      [] v.t = "str" -> v.chars
      [] v.t = "int" -> <<ToString(v.n)>>
      [] v.t = "dict" -> <<"{...}">>
      [] v.t = "list" -> <<"[...]">>

(* v or "N/A" *)
OrNA(v) == IF Truthy(v) THEN PyStr(v) ELSE <<"N/A">>

Paragraph(message) == << <<"p", <<message>> >> >>

(* [f(x) for x in elems] *)
Map(elems, f(_)) == [i \in 1..Len(elems) |-> f(elems[i])]

(* The helpers take the value found under the collection's key.  Every     *)
(* truthy collection value of this model is a list (a dict for the social  *)
(* links).                                                                 *)

ProductCard(product) ==
    <<"card",
      PyStr(Get(product.items, "name", S("N/A"))),
      PyStr(Get(product.items, "category", S("N/A"))),
      PyStr(Get(product.items, "description", S("No description available")))>>

(* _format_products without its emptiness check *)
_format_products_no_check(products) ==
    IF ~IsList(products) THEN Raise("TypeError")
    ELSE IF \E i \in 1..Len(products.elems) : ~IsDict(products.elems[i])
    THEN Raise("AttributeError")
    ELSE Html(<< <<"grid-open">> >>
              \o Map(products.elems, ProductCard)
              \o << <<"grid-close">> >>)

_format_products(products) ==
    IF ~Truthy(products) THEN Html(Paragraph("No product information available."))
    ELSE IF \E i \in 1..Len(products.elems) : ~IsDict(products.elems[i])
    THEN Raise("AttributeError")
    ELSE Html(<< <<"grid-open">> >>
              \o Map(products.elems, ProductCard)
              \o << <<"grid-close">> >>)

Tag(comp) == <<"tag", PyStr(comp)>>

_format_competitors(competitors) ==
    IF ~Truthy(competitors) THEN Html(Paragraph("No competitor information available."))
    ELSE Html(Map(competitors.elems, Tag))

_format_list_items(items, css_class) ==
    IF ~Truthy(items) THEN Html(Paragraph("No information available."))
    ELSE Html(Map(items.elems, LAMBDA item : <<css_class, PyStr(item)>>))

NewsItem(news) ==
    <<"news-item",
      PyStr(Get(news.items, "title", S("No Title"))),
      PyStr(Get(news.items, "date", S("N/A"))),
      PyStr(Get(news.items, "source", S("Unknown Source"))),
      PyStr(Get(news.items, "summary", S("No summary available")))>>

_format_news(news_items) ==
    IF ~Truthy(news_items) THEN Html(Paragraph("No recent news available."))
    ELSE IF \E i \in 1..Len(news_items.elems) : ~IsDict(news_items.elems[i])
    THEN Raise("AttributeError")
    ELSE Html(Map(news_items.elems, NewsItem))

Reverse(q) == [i \in 1..Len(q) |-> q[Len(q) + 1 - i]]

_format_tags_reversed(items) ==
    IF ~Truthy(items) THEN Html(Paragraph("No information available."))
    ELSE Html(Reverse(Map(items.elems, Tag)))

_format_tags(items) ==
    IF ~Truthy(items) THEN Html(Paragraph("No information available."))
    ELSE Html(Map(items.elems, Tag))

(* the platforms dict of _format_social_media, in its order *)
platforms ==
    << <<"linkedin", "LinkedIn">>, <<"twitter", "Twitter/X">>, <<"facebook", "Facebook">> >>

RECURSIVE SocialLinks(_, _)
SocialLinks(social, i) ==
    IF i > Len(platforms) THEN <<>>
    ELSE LET url == Get(social, platforms[i][1], Null)
         IN  (IF Truthy(url) THEN << <<"li", <<platforms[i][2]>>, PyStr(url)>> >> ELSE <<>>)
             \o SocialLinks(social, i + 1)

_format_social_media(social) ==
    IF ~Truthy(social) THEN Html(Paragraph("No social media information available."))
    ELSE IF ~IsDict(social) THEN Raise("AttributeError")
    ELSE IF ~\E i \in 1..Len(social.items) : Truthy(social.items[i][2])
    THEN Html(Paragraph("No social media information available."))
    ELSE Html(<< <<"ul-open">> >> \o SocialLinks(social.items, 1) \o << <<"ul-close">> >>)

(* format_html_from_json(data), called when the clock shows the date      *)
(* today.  The sections are built first, in the order of lines 26-44, then *)
(* the keyword arguments of HTML_TEMPLATE.format in the order of lines     *)
(* 48-64; the first step that raises ends the call.                        *)
RenderPage(d, today, analysis_date) ==
    LET market_position == Get(d, "market_position", EmptyDict)
        overview == Get(d, "overview", EmptyDict)
        products_html == _format_products(Get(d, "products_services", EmptyList))
        competitors_html ==
            _format_competitors(Get(market_position.items, "key_competitors", EmptyList))
        strengths_html == _format_list_items(Get(d, "strengths", EmptyList), "list-item")
        weaknesses_html ==
            _format_list_items(Get(d, "weaknesses", EmptyList), "list-item weakness")
        news_html == _format_news(Get(d, "recent_news", EmptyList))
        tech_html == _format_tags(Get(d, "technology_stack", EmptyList))
        social_html == _format_social_media(Get(d, "social_media_presence", EmptyDict))
    IN  IF ~products_html.ok THEN products_html
        ELSE IF ~IsDict(market_position) THEN Raise("AttributeError")
        ELSE IF ~competitors_html.ok THEN competitors_html
        ELSE IF ~strengths_html.ok THEN strengths_html
        ELSE IF ~weaknesses_html.ok THEN weaknesses_html
        ELSE IF ~news_html.ok THEN news_html
        ELSE IF ~tech_html.ok THEN tech_html
        ELSE IF ~social_html.ok THEN social_html
        ELSE IF ~IsDict(overview) THEN Raise("AttributeError")
        ELSE Html([
            company_name |-> PyStr(Get(d, "company_name", S("Unknown Company"))),
            website |-> PyStr(Get(d, "website", S("#"))),
            analysis_date |-> analysis_date,
            description |->
                PyStr(Get(overview.items, "description", S("No description available"))),
            founded_year |-> OrNA(Get(overview.items, "founded_year", Null)),
            headquarters |-> OrNA(Get(overview.items, "headquarters", Null)),
            size |-> OrNA(Get(overview.items, "size", Null)),
            products_html |-> products_html.html,
            target_market |-> PyStr(Get(market_position.items, "target_market", S("N/A"))),
            market_share |-> OrNA(Get(market_position.items, "market_share", Null)),
            competitors_html |-> competitors_html.html,
            strengths_html |-> strengths_html.html,
            weaknesses_html |-> weaknesses_html.html,
            news_html |-> news_html.html,
            pricing_model |-> OrNA(Get(d, "pricing_model", Null)),
            tech_html |-> tech_html.html,
            social_html |-> social_html.html])

(* format_html_from_json with the analysis date always taken from the clock *)
format_html_from_json_clock_date(data, today) ==
    IF ~IsDict(data) THEN Raise("AttributeError")
    ELSE RenderPage(data.items, today, <<today>>)

format_html_from_json(data, today) ==
    IF ~IsDict(data) THEN Raise("AttributeError")
    ELSE RenderPage(data.items, today,
                    PyStr(Get(data.items, "analysis_date", S(today))))

--------------------------------------------------------------------------
(* Harness of the parsers: a response text is drawn, then each parser is   *)
(* applied to it.                                                          *)

MaxLen == 5
TextAtoms == {FENCE, TAG, NL, FF, "{}", LBRACKET, RBRACKET, QUOTE}
Texts == UNION {[1..n -> TextAtoms] : n \in 0..MaxLen}

(* texts around the length of the preview of line 117, of one-character    *)
(* atoms: no JSON value starts with a closing bracket                      *)
LongTexts ==
    {[i \in 1..n |-> RBRACKET] : n \in {PreviewLen - 1, PreviewLen, PreviewLen + 1}}

NotRun == [run |-> FALSE]

(* the same text inside a json-tagged fence *)
Fenced(t) == <<FENCE, TAG, NL>> \o t \o <<NL, FENCE>>

ParseIdle ==
    /\ text = <<>>
    /\ single = NotRun
    /\ wrapped = NotRun
    /\ batch = NotRun
RenderIdle ==
    /\ record = EmptyDict
    /\ edits = 0
    /\ today1 = ""
    /\ today2 = ""
    /\ html1 = NotRun
    /\ html2 = NotRun
OrchIdle ==
    /\ companies = <<>>
    /\ pc = "idle"
    /\ idx = 0
    /\ calls = <<>>
    /\ response = NotRun
    /\ answer = NotRun
    /\ batch_data = <<>>
    /\ results = <<>>
    /\ trace = <<>>
    /\ outcome = "idle"

SaveIdle ==
    /\ report_key = Null
    /\ now = ""
    /\ caller = ""
    /\ filename = NotRun
    /\ saved = NotRun

ParseInit ==
    /\ text \in Texts \cup LongTexts
    /\ single = NotRun
    /\ wrapped = NotRun
    /\ batch = NotRun
    /\ RenderIdle
    /\ OrchIdle
    /\ SaveIdle

ParseSingle ==
    /\ single = NotRun
    /\ single' = _parse_response(text)
    /\ UNCHANGED <<text, wrapped, batch, renderVars, orchVars, saveVars>>

ParseWrapped ==
    /\ single # NotRun
    /\ wrapped = NotRun
    /\ wrapped' = _parse_response(Fenced(text))
    /\ UNCHANGED <<text, single, batch, renderVars, orchVars, saveVars>>

ParseBatch ==
    /\ wrapped # NotRun
    /\ batch = NotRun
    /\ batch' = _parse_batch_response(text)
    /\ UNCHANGED <<text, single, wrapped, renderVars, orchVars, saveVars>>

ParseNext == ParseSingle \/ ParseWrapped \/ ParseBatch

SpecParse == ParseInit /\ [][ParseNext]_vars

--------------------------------------------------------------------------
(* Harness of the renderer: a record is made from BaseRecord by at most    *)
(* MaxEdits edits (a key removed, or given another value), then rendered   *)
(* twice, the clock showing any date at each invocation.                   *)

MaxEdits == 2
Dates == {"2024-12-01", "2024-12-02"}

Absent == [t |-> "absent"]
Edit(path, value) == [path |-> path, value |-> value]

TwoStrings == List(<<S("Zeta"), S("Alpha")>>)
SocialAllNull == Dict(<< <<"linkedin", Null>>, <<"twitter", Null>> >>)
SocialReordered ==
    Dict(<< <<"twitter", S("https://twitter.test/acme")>>,
            <<"linkedin", S("https://linkedin.test/acme")>> >>)
SocialPartial ==
    Dict(<< <<"linkedin", Null>>, <<"instagram", S("https://instagram.test/acme")>> >>)

EditOptions ==
    {Edit(<<k>>, v) : k \in {"company_name", "website", "analysis_date"}, v \in {Absent, Null}}
    \cup {Edit(<<"pricing_model">>, v) : v \in {Absent, Null, EmptyStr}}
    \cup {Edit(<<"overview">>, v) : v \in {Absent, Null, EmptyDict}}
    \cup {Edit(<<"market_position">>, v) : v \in {Absent, Null}}
    \cup {Edit(<<"products_services">>, v) :
            v \in {Absent, Null, EmptyList, List(<<Product2, Product1>>)}}
    \cup {Edit(<<"recent_news">>, v) :
            v \in {Absent, Null, EmptyList, List(<<News2, News1>>)}}
    \cup {Edit(<<k>>, v) : k \in {"strengths", "weaknesses", "technology_stack"},
                          v \in {Absent, Null, EmptyList, TwoStrings}}
    \cup {Edit(<<"social_media_presence">>, v) :
            v \in {Absent, Null, EmptyDict, SocialAllNull, SocialReordered, SocialPartial}}
    \cup {Edit(<<"overview", k>>, v) : k \in {"description", "size"}, v \in {Absent, Null}}
    \cup {Edit(<<"overview", "founded_year">>, v) : v \in {Absent, Null, Num(0)}}
    \cup {Edit(<<"overview", "headquarters">>, v) : v \in {Absent, Null, EmptyStr}}
    \cup {Edit(<<"market_position", "target_market">>, v) : v \in {Absent, Null}}
    \cup {Edit(<<"market_position", "market_share">>, v) : v \in {Absent, Null, EmptyStr}}
    \cup {Edit(<<"market_position", "key_competitors">>, v) :
            v \in {Absent, Null, EmptyList, TwoStrings}}

SetKey(items, key, value) ==
    IF value = Absent THEN Del(items, key) ELSE Put(items, key, value)

(* an edit of a member needs the enclosing object *)
Applicable(items, e) ==
    Len(e.path) = 2 => IsDict(Get(items, e.path[1], Null))

ApplyEdit(items, e) ==
    IF Len(e.path) = 1 THEN SetKey(items, e.path[1], e.value)
    ELSE Put(items, e.path[1],
             Dict(SetKey(Get(items, e.path[1], Null).items, e.path[2], e.value)))

RenderInit ==
    /\ record = Dict(BaseRecord)
    /\ edits = 0
    /\ today1 = ""
    /\ today2 = ""
    /\ html1 = NotRun
    /\ html2 = NotRun
    /\ ParseIdle
    /\ OrchIdle
    /\ SaveIdle

EditRecord ==
    /\ html1 = NotRun
    /\ edits < MaxEdits
    /\ \E e \in EditOptions :
          /\ Applicable(record.items, e)
          /\ record' = Dict(ApplyEdit(record.items, e))
    /\ edits' = edits + 1
    /\ UNCHANGED <<today1, today2, html1, html2, parseVars, orchVars, saveVars>>

Render1 ==
    /\ html1 = NotRun
    /\ \E d \in Dates :
          /\ today1' = d
          /\ html1' = format_html_from_json(record, d)
    /\ UNCHANGED <<record, edits, today2, html2, parseVars, orchVars, saveVars>>

Render2 ==
    /\ html1 # NotRun
    /\ html2 = NotRun
    /\ \E d \in Dates :
          /\ today2' = d
          /\ html2' = format_html_from_json(record, d)
    /\ UNCHANGED <<record, edits, today1, html1, parseVars, orchVars, saveVars>>

RenderNext == EditRecord \/ Render1 \/ Render2

SpecRender == RenderInit /\ [][RenderNext]_vars

--------------------------------------------------------------------------
(* The batch orchestrator, BatchOptimizedPipeline.analyze_multiple_competitors: *)
(* one call, followed here step by step.  The generation capability        *)
(* (runner.run) answers each call with any text of a fixed set, or raises.  *)

MaxCompanies == 2

(* the inputs: (website, name) pairs; the name may be None *)
Pairs ==
    { <<"https://a.test", S("A")>>,
      <<"https://b.test", S("B")>>,
      <<"https://c.test", Null>> }
Inputs == UNION {[1..n -> Pairs] : n \in 0..MaxCompanies}

(* what the generation capability may answer to the batch prompt *)
BatchResponses ==
    { <<LBRACKET, "{A}", COMMA, "{B}", RBRACKET>>,
      <<LBRACKET, "{A}", RBRACKET>>,
      <<LBRACKET, RBRACKET>>,
      <<LBRACKET, "{A}", COMMA, "{A2}", RBRACKET>>,
      <<LBRACKET, "{anon}", RBRACKET>>,
      <<LBRACKET, "{bad}", RBRACKET>>,
      <<LBRACKET, QUOTE, QUOTE, RBRACKET>>,
      <<FENCE, TAG, NL, LBRACKET, "{B}", RBRACKET, NL, FENCE>>,
      <<"{A}">>,
      <<TAG>> }
(* and to a single-item prompt *)
SingleResponses ==
    { <<"{A}">>,
      <<FENCE, "{B}", FENCE>>,
      <<"{bad}">>,
      <<LBRACKET, RBRACKET>>,
      <<TAG>> }

Answer(t) == [ok |-> TRUE, text |-> t]
NoAnswer == [ok |-> FALSE, text |-> <<>>]
GenerationError == <<"generation failed">>
AttributeErrorMessage == <<"object has no attribute 'get'">>

(* str(e) of what _parse_response or format_html_from_json raised *)
ErrorText(raised) ==
    IF "message" \in DOMAIN raised THEN raised.message ELSE AttributeErrorMessage

BatchPrompt(cs) == [kind |-> "batch", target |-> cs]
SinglePrompt(pair) == [kind |-> "single", target |-> <<pair>>]

Event(ev, what) == <<ev, what>>

(* _create_error_report(company_name, error) *)
_create_error_report(company_name, error) ==
    [title |-> <<"Analysis Failed - ">> \o PyStr(company_name),
     company |-> PyStr(company_name),
     error |-> error]

(* _calculate_savings(num_companies): the percentage, or the division by   *)
(* zero of line 290                                                        *)
_calculate_savings(num_companies) ==
    IF num_companies = 0 THEN Raise("ZeroDivisionError")
    ELSE [ok |-> TRUE, value |-> ((num_companies - 1) * 100) \div num_companies]

(* analyze_competitor(url, name) from the answer of its generation call on: *)
(* parse, then render; the page, or what was raised                         *)
AnalyzeFrom(generated, today) ==
    IF ~generated.ok THEN Raised("RuntimeError", GenerationError, <<>>)
    ELSE LET structured_data == _parse_response(generated.text)
         IN  IF ~structured_data.ok THEN structured_data
             ELSE format_html_from_json(structured_data.value, today)

OrchInit ==
    /\ companies \in Inputs
    /\ pc = "start"
    /\ idx = 0
    /\ calls = <<>>
    /\ response = NotRun
    /\ answer = NotRun
    /\ batch_data = <<>>
    /\ results = <<>>
    /\ trace = <<>>
    /\ outcome = "running"
    /\ ParseIdle
    /\ RenderIdle
    /\ SaveIdle

(* lines 167-173: the banner, with the savings of line 169 *)
Start ==
    /\ pc = "start"
    /\ IF _calculate_savings(Len(companies)).ok
       THEN /\ pc' = "batch_call"
            /\ trace' = Append(trace, Event("start", ""))
            /\ outcome' = outcome
       ELSE /\ pc' = "done"
            /\ trace' = Append(trace, Event("raise", "ZeroDivisionError"))
            /\ outcome' = "raised"
    /\ UNCHANGED <<companies, idx, calls, response, answer, batch_data, results,
                   parseVars, renderVars, saveVars>>

(* BatchCall with the call inside the try of line 180: a failed call       *)
(* enters fallback                                                         *)
BatchCall_in_try ==
    /\ pc = "batch_call"
    /\ calls' = Append(calls, BatchPrompt(companies))
    /\ \/ \E t \in BatchResponses :
             /\ response' = Answer(t)
             /\ pc' = "batch_parse"
             /\ trace' = Append(trace, Event("call", "batch"))
             /\ idx' = idx
       \/ /\ response' = NoAnswer
          /\ pc' = "fallback_call"
          /\ trace' = trace \o <<Event("call", "batch"), Event("fallback", "")>>
          /\ idx' = 1
    /\ UNCHANGED <<companies, answer, batch_data, results, outcome, parseVars, renderVars,
                   saveVars>>

(* line 177: the one batch generation call; what it raises propagates *)
BatchCall ==
    /\ pc = "batch_call"
    /\ calls' = Append(calls, BatchPrompt(companies))
    /\ \/ \E t \in BatchResponses :
             /\ response' = Answer(t)
             /\ pc' = "batch_parse"
             /\ trace' = Append(trace, Event("call", "batch"))
             /\ outcome' = outcome
       \/ /\ response' = NoAnswer
          /\ pc' = "done"
          /\ trace' = trace \o <<Event("call", "batch"), Event("raise", "RuntimeError")>>
          /\ outcome' = "raised"
    /\ UNCHANGED <<companies, idx, answer, batch_data, results, parseVars, renderVars,
                   saveVars>>

(* lines 180-185: parse the batch response; any exception enters fallback *)
BatchParse ==
    /\ pc = "batch_parse"
    /\ LET parsed == _parse_batch_response(response.text)
       IN  IF parsed.ok
           THEN /\ batch_data' = parsed.value.elems
                /\ pc' = "render"
                /\ trace' = Append(trace, Event("parsed", ""))
           ELSE /\ batch_data' = batch_data
                /\ pc' = "fallback_call"
                /\ trace' = trace \o <<Event("parse_failed", parsed.exc),
                                       Event("fallback", "")>>
    /\ idx' = 1
    /\ UNCHANGED <<companies, calls, response, answer, results, outcome,
                   parseVars, renderVars, saveVars>>

(* RenderElement keeping the report already stored under a name instead   *)
(* of replacing it                                                         *)
RenderElement_keep_first ==
    /\ pc = "render"
    /\ idx <= Len(batch_data)
    /\ \E d \in Dates :
          LET element == batch_data[idx]
              html == format_html_from_json(element, d)
          IN  IF IsDict(element) /\ html.ok
              THEN LET key == Get(element.items, "company_name", S("Unknown"))
                   IN  /\ results' = IF HasKey(results, key) THEN results
                                      ELSE Put(results, key, html.html)
                       /\ idx' = idx + 1
                       /\ pc' = pc
                       /\ trace' = Append(trace, Event("render", ToString(idx)))
                       /\ outcome' = outcome
              ELSE /\ results' = results
                   /\ idx' = idx
                   /\ pc' = "done"
                   /\ trace' = Append(trace, Event("raise", "AttributeError"))
                   /\ outcome' = "raised"
    /\ UNCHANGED <<companies, calls, response, answer, batch_data, parseVars, renderVars,
                   saveVars>>

(* lines 189-193: one turn of the loop over the parsed array; what the     *)
(* lookup of the name or the renderer raises propagates                    *)
RenderElement ==
    /\ pc = "render"
    /\ idx <= Len(batch_data)
    /\ \E d \in Dates :
          LET element == batch_data[idx]
              html == format_html_from_json(element, d)
          IN  IF IsDict(element) /\ html.ok
              THEN /\ results' = Put(results,
                                     Get(element.items, "company_name", S("Unknown")),
                                     html.html)
                   /\ idx' = idx + 1
                   /\ pc' = pc
                   /\ trace' = Append(trace, Event("render", ToString(idx)))
                   /\ outcome' = outcome
              ELSE /\ results' = results
                   /\ idx' = idx
                   /\ pc' = "done"
                   /\ trace' = Append(trace, Event("raise", "AttributeError"))
                   /\ outcome' = "raised"
    /\ UNCHANGED <<companies, calls, response, answer, batch_data, parseVars, renderVars,
                   saveVars>>

(* lines 195-201: the closing banner, and the return of the primary path *)
Finish ==
    /\ pc = "render"
    /\ idx > Len(batch_data)
    /\ pc' = "done"
    /\ IF _calculate_savings(Len(companies)).ok
       THEN /\ trace' = Append(trace, Event("return", "primary"))
            /\ outcome' = "returned"
       ELSE /\ trace' = Append(trace, Event("raise", "ZeroDivisionError"))
            /\ outcome' = "raised"
    /\ UNCHANGED <<companies, idx, calls, response, answer, batch_data, results,
                   parseVars, renderVars, saveVars>>

(* lines 262-265, 54-58: the next input's own generation call *)
FallbackCall ==
    /\ pc = "fallback_call"
    /\ idx <= Len(companies)
    /\ calls' = Append(calls, SinglePrompt(companies[idx]))
    /\ answer' \in {Answer(t) : t \in SingleResponses} \cup {NoAnswer}
    /\ pc' = "fallback_store"
    /\ trace' = Append(trace, Event("call", ToString(idx)))
    /\ UNCHANGED <<companies, idx, response, batch_data, results, outcome,
                   parseVars, renderVars, saveVars>>

(* FallbackStore without the try of lines 264-269: what the item raises    *)
(* propagates                                                              *)
FallbackStore_no_try ==
    /\ pc = "fallback_store"
    /\ \E d \in Dates :
          LET name == companies[idx][2]
              html == AnalyzeFrom(answer, d)
          IN  IF html.ok
              THEN /\ results' = Put(results, name, html.html)
                   /\ idx' = idx + 1
                   /\ pc' = "fallback_call"
                   /\ trace' = Append(trace, Event("store", ToString(idx)))
                   /\ outcome' = outcome
              ELSE /\ results' = results
                   /\ idx' = idx
                   /\ pc' = "done"
                   /\ trace' = Append(trace, Event("raise", html.exc))
                   /\ outcome' = "raised"
    /\ UNCHANGED <<companies, calls, response, answer, batch_data, parseVars, renderVars,
                   saveVars>>

(* lines 61-67, 266-269: parse and render the answer; the page, or the     *)
(* error page for whatever was raised, is stored under the input's name    *)
FallbackStore ==
    /\ pc = "fallback_store"
    /\ \E d \in Dates :
          LET name == companies[idx][2]
              html == AnalyzeFrom(answer, d)
          IN  results' = Put(results, name,
                             IF html.ok THEN html.html
                             ELSE _create_error_report(name, ErrorText(html)))
    /\ idx' = idx + 1
    /\ pc' = "fallback_call"
    /\ trace' = Append(trace, Event("store", ToString(idx)))
    /\ UNCHANGED <<companies, calls, response, answer, batch_data, outcome,
                   parseVars, renderVars, saveVars>>

(* line 271: the return of the fallback path *)
FallbackReturn ==
    /\ pc = "fallback_call"
    /\ idx > Len(companies)
    /\ pc' = "done"
    /\ trace' = Append(trace, Event("return", "fallback"))
    /\ outcome' = "returned"
    /\ UNCHANGED <<companies, idx, calls, response, answer, batch_data, results,
                   parseVars, renderVars, saveVars>>

Next ==
    \/ Start
    \/ BatchCall
    \/ BatchParse
    \/ RenderElement
    \/ Finish
    \/ FallbackCall
    \/ FallbackStore
    \/ FallbackReturn

Spec == OrchInit /\ [][Next]_vars

--------------------------------------------------------------------------
(* Single-item mode: analyze_competitor(company_website, company_name)     *)
(* called directly, followed step by step: the generation call, the parse  *)
(* of its answer, the rendering of the parsed value.                       *)

MaxAnswerLen == 3
AnswerTexts == UNION {[1..n -> TextAtoms] : n \in 0..MaxAnswerLen} \cup SingleResponses

SingleInit ==
    /\ companies \in {<<p>> : p \in Pairs}
    /\ pc = "single_call"
    /\ idx = 1
    /\ calls = <<>>
    /\ response = NotRun
    /\ answer = NotRun
    /\ batch_data = <<>>
    /\ results = <<>>
    /\ trace = <<>>
    /\ outcome = "running"
    /\ ParseIdle
    /\ RenderIdle
    /\ SaveIdle

(* lines 54-58: the prompt and the one generation call; what the call      *)
(* raises propagates                                                       *)
SingleCall ==
    /\ pc = "single_call"
    /\ calls' = Append(calls, SinglePrompt(companies[1]))
    /\ \E a \in {Answer(t) : t \in AnswerTexts} \cup {NoAnswer} :
          /\ answer' = a
          /\ IF a.ok
             THEN /\ pc' = "single_parse"
                  /\ trace' = Append(trace, Event("call", "1"))
                  /\ outcome' = outcome
             ELSE /\ pc' = "done"
                  /\ trace' = trace \o <<Event("call", "1"), Event("raise", "RuntimeError")>>
                  /\ outcome' = "raised"
    /\ UNCHANGED <<companies, idx, response, batch_data, results, parseVars, renderVars,
                   saveVars>>

(* SingleParse calling the generation capability again when the answer     *)
(* does not parse                                                          *)
SingleParse_retry ==
    /\ pc = "single_parse"
    /\ single' = _parse_response(answer.text)
    /\ IF single'.ok
       THEN /\ pc' = "single_render"
            /\ trace' = Append(trace, Event("parsed", ""))
       ELSE /\ pc' = "single_call"
            /\ trace' = Append(trace, Event("retry", ""))
    /\ UNCHANGED <<text, wrapped, batch, companies, idx, calls, response, answer,
                   batch_data, results, outcome, renderVars, saveVars>>

(* lines 60-62: structured_data = self._parse_response(response); the      *)
(* ValueError it raises is not caught                                      *)
SingleParse ==
    /\ pc = "single_parse"
    /\ single' = _parse_response(answer.text)
    /\ IF single'.ok
       THEN /\ pc' = "single_render"
            /\ trace' = Append(trace, Event("parsed", ""))
            /\ outcome' = outcome
       ELSE /\ pc' = "done"
            /\ trace' = Append(trace, Event("raise", single'.exc))
            /\ outcome' = "raised"
    /\ UNCHANGED <<text, wrapped, batch, companies, idx, calls, response, answer,
                   batch_data, results, renderVars, saveVars>>

(* lines 64-74: html_report = format_html_from_json(structured_data), and  *)
(* its return                                                              *)
SingleRender ==
    /\ pc = "single_render"
    /\ \E d \in Dates :
          /\ today1' = d
          /\ html1' = format_html_from_json(single.value, d)
    /\ pc' = "done"
    /\ IF html1'.ok
       THEN /\ trace' = trace \o <<Event("render", ""), Event("return", "single")>>
            /\ outcome' = "returned"
       ELSE /\ trace' = trace \o <<Event("render", ""), Event("raise", html1'.exc)>>
            /\ outcome' = "raised"
    /\ UNCHANGED <<record, edits, today2, html2, companies, idx, calls, response, answer,
                   batch_data, results, parseVars, saveVars>>

SingleNext == SingleCall \/ SingleParse \/ SingleRender

SpecSingle == SingleInit /\ [][SingleNext]_vars

--------------------------------------------------------------------------
(* Saving the reports: each caller of main.py derives a filename from the  *)
(* key of a report and passes it to save_report, or passes none.           *)

MaxNameLen == 3
(* an upper-case letter, a lower-case letter, a space, an underscore *)
NameChars == {"S", "t", " ", "_"}
ReportKeys ==
    {Str(c) : c \in UNION {[1..n -> NameChars] : n \in 1..MaxNameLen}} \cup {Null}
(* datetime.now().strftime('%Y%m%d_%H%M%S') *)
Timestamps == {"20241201_120000", "20241202_093000"}

(* str.lower() *)
lower(s) == [i \in 1..Len(s) |-> IF s[i] = "S" THEN "s" ELSE s[i]]
(* str.replace(old, new), old one character *)
replace(s, old, new) == [i \in 1..Len(s) |-> IF s[i] = old THEN new ELSE s[i]]

(* main.py lines 76 and 128:                                               *)
(* f"{company_name.lower().replace(' ', '_')}_analysis.html"               *)
LowerCasedFilename(name) ==
    IF IsStr(name)
    THEN Returned(replace(lower(name.chars), " ", "_") \o <<"_analysis.html">>)
    ELSE Raised("AttributeError", AttributeErrorMessage, <<>>)

(* main.py line 180: f"{company_name.replace(' ', '_')}_analysis.html" *)
InteractiveFilename(name) ==
    IF IsStr(name)
    THEN Returned(replace(name.chars, " ", "_") \o <<"_analysis.html">>)
    ELSE Raised("AttributeError", AttributeErrorMessage, <<>>)

(* save_report(html_content, filename): the path written to *)
save_report(fname, clock) ==
    IF fname = Null THEN <<"competitor_analysis_", clock, ".html">> ELSE fname

SaveInit ==
    /\ report_key \in ReportKeys
    /\ now \in Timestamps
    /\ caller = ""
    /\ filename = NotRun
    /\ saved = NotRun
    /\ ParseIdle
    /\ RenderIdle
    /\ OrchIdle

(* main.py lines 75-77 *)
example_batch_analysis ==
    /\ filename = NotRun
    /\ caller' = "example_batch_analysis"
    /\ filename' = LowerCasedFilename(report_key)
    /\ UNCHANGED <<report_key, now, saved, parseVars, renderVars, orchVars>>

(* main.py lines 127-129 *)
example_from_file ==
    /\ filename = NotRun
    /\ caller' = "example_from_file"
    /\ filename' = LowerCasedFilename(report_key)
    /\ UNCHANGED <<report_key, now, saved, parseVars, renderVars, orchVars>>

(* main.py lines 179-181: interactive_mode, choice 2 *)
interactive_mode_batch ==
    /\ filename = NotRun
    /\ caller' = "interactive_mode_batch"
    /\ filename' = InteractiveFilename(report_key)
    /\ UNCHANGED <<report_key, now, saved, parseVars, renderVars, orchVars>>

(* main.py line 157: interactive_mode, choice 1, save_report(report) *)
interactive_mode_single ==
    /\ filename = NotRun
    /\ caller' = "interactive_mode_single"
    /\ filename' = Returned(Null)
    /\ UNCHANGED <<report_key, now, saved, parseVars, renderVars, orchVars>>

(* the call of save_report with the filename derived *)
SaveReport ==
    /\ filename # NotRun
    /\ filename.ok
    /\ saved = NotRun
    /\ saved' = save_report(filename.value, now)
    /\ UNCHANGED <<report_key, now, caller, filename, parseVars, renderVars, orchVars>>

SaveNext ==
    \/ example_batch_analysis
    \/ example_from_file
    \/ interactive_mode_batch
    \/ interactive_mode_single
    \/ SaveReport

SpecSave == SaveInit /\ [][SaveNext]_vars

--------------------------------------------------------------------------
(* Claims about the orchestrator.                                          *)

Has(ev) == \E i \in 1..Len(trace) : trace[i][1] = ev
FallbackEntered == Has("fallback")

(* the batch call was answered and the answer does not parse as an array *)
BatchParseFails ==
    /\ response # NotRun
    /\ response.ok
    /\ ~_parse_batch_response(response.text).ok

IsFullReport(page) == "products_html" \in DOMAIN page
IsErrorPage(page) == "error" \in DOMAIN page

(* the key an input is to be found under: its name, its website if unnamed *)
ExpectedKey(pair) == IF pair[2] = Null THEN S(pair[1]) ELSE pair[2]

(* C1: the returned mapping has exactly one entry per input pair, under    *)
(* the pair's name, or its website when it has no name, on the primary     *)
(* path and on the fallback path.                                          *)
C1_Claim ==
    outcome = "returned" =>
        /\ Len(results) = Len(companies)
        /\ {results[i][1] : i \in 1..Len(results)}
              = {ExpectedKey(companies[i]) : i \in 1..Len(companies)}

(* C2: once the batch response failed to parse as an array, the call       *)
(* returns whatever the per-item generation, parse and render steps do:    *)
(* nothing is raised, the loop is at a call or at the store of an input    *)
(* until the return, and every value stored is a full report or an error   *)
(* page.                                                                   *)
C2_FallbackReturns ==
    FallbackEntered =>
        /\ outcome # "raised"
        /\ outcome = "running" =>
              \/ pc = "fallback_call" /\ idx \in 1..(Len(companies) + 1)
              \/ pc = "fallback_store" /\ idx \in 1..Len(companies)
        /\ pc = "done" => outcome = "returned"
        /\ \A i \in 1..Len(results) :
              IsFullReport(results[i][2]) \/ IsErrorPage(results[i][2])

(* the fallback returned a full report beside an error page *)
C2_Witness ==
    /\ FallbackEntered
    /\ outcome = "returned"
    /\ Len(results) = 2
    /\ \E i, j \in 1..2 : IsFullReport(results[i][2]) /\ IsErrorPage(results[j][2])

(* C3: fallback is entered exactly when the batch parse step fails: never  *)
(* when the batch call or the rendering of an element fails, and always,   *)
(* instead of a raise, when the parse does.                                *)
C3_FallbackIffParseFails ==
    /\ FallbackEntered => BatchParseFails
    /\ (BatchParseFails /\ pc # "batch_parse") => (FallbackEntered /\ outcome # "raised")
    /\ Has("raise") => ~FallbackEntered

(* the fallback was entered for an answer that is JSON but not an array,   *)
(* and the call went on to return                                          *)
C3_Witness ==
    /\ FallbackEntered
    /\ \E i \in 1..Len(trace) : trace[i] = Event("parse_failed", "ValueError")
    /\ outcome = "returned"

BatchCalls == SelectSeq(calls, LAMBDA c : c.kind = "batch")
SingleCalls == SelectSeq(calls, LAMBDA c : c.kind = "single")
(* the calls and stores of the fallback loop, in the order they happened *)
LoopEvents == SelectSeq(trace, LAMBDA e : e[1] \in {"call", "store"} /\ e[2] # "batch")

(* no more than one batch call, none but it on the primary path, and on    *)
(* the fallback path one call per input, each after the previous input's   *)
(* page was stored, in input order                                         *)
C4_Calls ==
    /\ Len(BatchCalls) <= 1
    /\ calls # <<>> => calls[1] = BatchPrompt(companies)
    /\ ~FallbackEntered => SingleCalls = <<>>
    /\ \A k \in 1..Len(LoopEvents) :
          LoopEvents[k] = Event(IF k % 2 = 1 THEN "call" ELSE "store", ToString((k + 1) \div 2))
    /\ \A k \in 1..Len(SingleCalls) : SingleCalls[k] = SinglePrompt(companies[k])
    /\ (FallbackEntered /\ pc = "done") =>
          /\ Len(SingleCalls) = Len(companies)
          /\ Len(calls) = 1 + Len(companies)

(* C4: in any run the batch call is issued exactly once; the primary path  *)
(* makes no other call; the fallback path makes one call per input, one    *)
(* after another in input order, 1 + N calls in all.                       *)
C4_Claim ==
    /\ pc = "done" => Len(BatchCalls) = 1
    /\ C4_Calls

(* what holds of C4 for one input or more *)
C4_NonEmpty ==
    /\ (pc = "done" /\ companies # <<>>) => Len(BatchCalls) = 1
    /\ C4_Calls

--------------------------------------------------------------------------
(* Claims about the renderer.                                              *)

(* the value a record holds at a path, Absent when the key, or the object  *)
(* that would hold it, is not there                                        *)
ValueAt(items, path) ==
    IF Len(path) = 1 THEN Get(items, path[1], Absent)
    ELSE LET outer == Get(items, path[1], Absent)
         IN  IF IsDict(outer) THEN Get(outer.items, path[2], Absent) ELSE Absent

Missing(v) == v = Absent \/ v = Null

(* placeholder of HTML_TEMPLATE |-> path of the field shown there *)
ScalarSlots ==
    { <<"company_name", <<"company_name">> >>,
      <<"website", <<"website">> >>,
      <<"analysis_date", <<"analysis_date">> >>,
      <<"description", <<"overview", "description">> >>,
      <<"target_market", <<"market_position", "target_market">> >> }
OptionalScalarSlots ==
    { <<"founded_year", <<"overview", "founded_year">> >>,
      <<"headquarters", <<"overview", "headquarters">> >>,
      <<"size", <<"overview", "size">> >>,
      <<"market_share", <<"market_position", "market_share">> >>,
      <<"pricing_model", <<"pricing_model">> >> }
CollectionSlots ==
    { <<"products_html", <<"products_services">> >>,
      <<"competitors_html", <<"market_position", "key_competitors">> >>,
      <<"strengths_html", <<"strengths">> >>,
      <<"weaknesses_html", <<"weaknesses">> >>,
      <<"news_html", <<"recent_news">> >>,
      <<"tech_html", <<"technology_stack">> >>,
      <<"social_html", <<"social_media_presence">> >> }

NeutralPlaceholders ==
    { <<"N/A">>, <<"Unknown Company">>, <<"#">>, <<"No description available">> }
        \cup { <<d>> : d \in Dates }

ItemKinds == {"card", "tag", "list-item", "list-item weakness", "news-item", "li"}
Fragments(section) == SelectSeq(section, LAMBDA chunk : chunk[1] \in ItemKinds)
Paragraphs(section) == SelectSeq(section, LAMBDA chunk : chunk[1] = "p")
IsPlaceholderSection(section) ==
    /\ Len(Paragraphs(section)) = 1
    /\ Len(Fragments(section)) = 0
    /\ Len(section) = 1

(* the helper that renders the collection shown at a placeholder *)
SectionOf(slot, value) ==
    CASE slot = "products_html" -> _format_products(value)
      [] slot = "competitors_html" -> _format_competitors(value)
      [] slot = "strengths_html" -> _format_list_items(value, "list-item")
      [] slot = "weaknesses_html" -> _format_list_items(value, "list-item weakness")
      [] slot = "news_html" -> _format_news(value)
      [] slot = "tech_html" -> _format_tags(value)
      [] slot = "social_html" -> _format_social_media(value)

(* C5: whatever fields of a record are absent or null, format_html_from_json *)
(* returns a page without raising, and each such field's place shows a       *)
(* neutral placeholder, never the rendering of the null value.               *)
C5_Claim ==
    html1 # NotRun =>
        /\ html1.ok
        /\ \A sp \in ScalarSlots \cup OptionalScalarSlots :
              Missing(ValueAt(record.items, sp[2])) =>
                  html1.html[sp[1]] \in NeutralPlaceholders
        /\ \A sp \in CollectionSlots :
              Missing(ValueAt(record.items, sp[2])) =>
                  IsPlaceholderSection(html1.html[sp[1]])
        /\ \A sp \in CollectionSlots :
              \A i \in 1..Len(html1.html[sp[1]]) :
                  \A j \in 2..Len(html1.html[sp[1]][i]) :
                      html1.html[sp[1]][i][j] # <<"None">>

(* C6: an optional scalar field that is null or absent shows "N/A" at its  *)
(* place, and one that holds a non-null value shows that value.            *)
C6_Claim ==
    html1 # NotRun =>
        \A sp \in OptionalScalarSlots :
            LET v == ValueAt(record.items, sp[2])
            IN  /\ html1.ok
                /\ html1.html[sp[1]] = (IF Missing(v) THEN <<"N/A">> ELSE PyStr(v))

(* C7: an empty collection is rendered as exactly one "no ... available"   *)
(* paragraph and no per-item fragment, by its helper and in the page.      *)
C7_EmptyCollection ==
    html1 # NotRun =>
        \A sp \in CollectionSlots :
            ValueAt(record.items, sp[2]) \in {EmptyList, EmptyDict} =>
                /\ SectionOf(sp[1], ValueAt(record.items, sp[2])).ok
                /\ IsPlaceholderSection(SectionOf(sp[1], ValueAt(record.items, sp[2])).html)
                /\ html1.ok => IsPlaceholderSection(html1.html[sp[1]])

(* a page was rendered from a record with an empty list and an empty object *)
C7_Witness ==
    /\ html1 # NotRun
    /\ html1.ok
    /\ ValueAt(record.items, <<"products_services">>) = EmptyList
    /\ ValueAt(record.items, <<"social_media_presence">>) = EmptyDict
    /\ IsPlaceholderSection(html1.html.products_html)
    /\ IsPlaceholderSection(html1.html.social_html)

(* what identifies a fragment, and the element it is rendered from *)
FragmentText(chunk) ==
    CASE chunk[1] = "card" -> chunk[4]
      [] chunk[1] = "news-item" -> chunk[2]
      [] chunk[1] = "li" -> chunk[3]
      [] OTHER -> chunk[2]
ElementText(slot, elem) ==
    CASE slot = "products_html" ->
            PyStr(Get(elem.items, "description", S("No description available")))
      [] slot = "news_html" -> PyStr(Get(elem.items, "title", S("No Title")))
      [] OTHER -> PyStr(elem)

ListSlots == {sp \in CollectionSlots : sp[1] # "social_html"}

(* one fragment per element of a non-empty list, in the order of the list *)
C8_Lists ==
    \A sp \in ListSlots :
        LET v == ValueAt(record.items, sp[2])
        IN  (IsList(v) /\ v.elems # <<>>) =>
                /\ SectionOf(sp[1], v).ok
                /\ Map(Fragments(SectionOf(sp[1], v).html), FragmentText)
                       = Map(v.elems, LAMBDA e : ElementText(sp[1], e))
                /\ html1.ok => html1.html[sp[1]] = SectionOf(sp[1], v).html

(* C8 as stated: every non-empty collection, the social links among them,  *)
(* is rendered as one fragment per element, in the order of the input.     *)
C8_Original ==
    html1 # NotRun =>
        /\ C8_Lists
        /\ LET v == ValueAt(record.items, <<"social_media_presence">>)
           IN  (IsDict(v) /\ v.items # <<>>) =>
                   /\ _format_social_media(v).ok
                   /\ Map(Fragments(_format_social_media(v).html), FragmentText)
                          = Map(v.items, LAMBDA kv : PyStr(kv[2]))

(* C8 as amended: the lists are rendered as stated; the social links are   *)
(* rendered as one fragment per platform among linkedin, twitter, facebook *)
(* whose URL is truthy, in that fixed order whatever the order of the      *)
(* input, and an entry that is null or of another platform gives none.     *)
C8_Amended ==
    html1 # NotRun =>
        /\ C8_Lists
        /\ LET v == ValueAt(record.items, <<"social_media_presence">>)
               shown == SelectSeq(<<"linkedin", "twitter", "facebook">>,
                                  LAMBDA k : Truthy(Get(v.items, k, Null)))
           IN  (IsDict(v) /\ v.items # <<>>) =>
                   /\ _format_social_media(v).ok
                   /\ Map(Fragments(_format_social_media(v).html), FragmentText)
                          = Map(shown, LAMBDA k : PyStr(Get(v.items, k, Null)))
                   /\ html1.ok => html1.html.social_html = _format_social_media(v).html

(* a page was rendered from a two-element list and from social links given *)
(* in another order than the platforms'                                    *)
C8_Witness ==
    /\ html1 # NotRun
    /\ html1.ok
    /\ ValueAt(record.items, <<"technology_stack">>) = TwoStrings
    /\ ValueAt(record.items, <<"social_media_presence">>) = SocialReordered
    /\ Len(Fragments(html1.html.tech_html)) = 2
    /\ Len(Fragments(html1.html.social_html)) = 2

(* C9 as stated: two invocations on the same record give the same outcome, *)
(* whenever each of them happens.                                          *)
C9_Original ==
    html2 # NotRun => html1 = html2

(* C9 as amended: two invocations on a record that has an analysis_date    *)
(* key give the same outcome whenever each of them happens; on a record    *)
(* without that key the page shows the date of the invocation, and the two *)
(* outcomes are the same exactly when the two dates are (or both raise).   *)
C9_Amended ==
    html2 # NotRun =>
        /\ (HasKey(record.items, "analysis_date") \/ today1 = today2) => html1 = html2
        /\ (~HasKey(record.items, "analysis_date") /\ html1.ok) =>
              /\ html2.ok
              /\ html1.html.analysis_date = <<today1>>
              /\ html2.html.analysis_date = <<today2>>
              /\ [html1.html EXCEPT !.analysis_date = <<>>]
                     = [html2.html EXCEPT !.analysis_date = <<>>]
        /\ ~html1.ok => html2 = html1

(* a record with an analysis_date was rendered on two different dates *)
C9_Witness ==
    /\ html2 # NotRun
    /\ html1.ok
    /\ HasKey(record.items, "analysis_date")
    /\ today1 # today2
    /\ html1 = html2

--------------------------------------------------------------------------
(* Claims about the single-item parser.                                    *)

(* The text the parser is to decode at its second attempt, found by        *)
(* position: from the first json-tagged marker when the text has one,      *)
(* otherwise from the first bare marker, up to the next marker or the end; *)
(* the full text when it has no marker.                                    *)
C10_SecondText(t) ==
    LET tagged == {i \in 1..Len(t) : IsPrefixAt(t, <<FENCE, TAG>>, i)}
        bare == {i \in 1..Len(t) : t[i] = FENCE}
        Min(set) == CHOOSE i \in set : \A j \in set : i <= j
        start == IF tagged # {} THEN Min(tagged) + 2 ELSE Min(bare) + 1
        closing == {i \in bare : i >= start}
        end == IF closing # {} THEN Min(closing) ELSE Len(t) + 1
    IN  IF bare = {} THEN t ELSE SubSeq(t, start, end - 1)

C10_Expected(t) ==
    IF json_loads(t).ok THEN json_loads(t)
    ELSE json_loads(Strip(C10_SecondText(t)))

C10_FixedOrder ==
    single # NotRun =>
        /\ single.ok = C10_Expected(text).ok
        /\ single.ok => single.value = C10_Expected(text).v

(* C10 as stated: _parse_response decodes the full text first, on failure  *)
(* the trimmed text between the opening fence marker and the next marker,  *)
(* and with no marker the trimmed full text; and every JSON value decodes  *)
(* to the same value bare and wrapped in a json-tagged fence.              *)
C10_Original ==
    /\ C10_FixedOrder
    /\ (wrapped # NotRun /\ json_loads(text).ok) => wrapped = single

(* C10 as amended: the fixed order holds as stated; a JSON value decodes   *)
(* to the same value bare and wrapped in a json-tagged fence when its text *)
(* holds no triple backtick, and when it holds one (inside a string) the   *)
(* bare text decodes and the wrapped text raises ValueError.               *)
C10_Amended ==
    /\ C10_FixedOrder
    /\ (wrapped # NotRun /\ json_loads(text).ok) =>
          IF Contains(text, <<FENCE>>)
          THEN single.ok /\ ~wrapped.ok /\ wrapped.exc = "ValueError"
          ELSE wrapped = single

(* a bare value and its fenced form were both parsed, to the same value *)
C10_Witness ==
    /\ wrapped # NotRun
    /\ json_loads(text).ok
    /\ wrapped.ok
    /\ wrapped = single
    /\ IsList(single.value)

(* whether decoding fails at every stage of the single-item parser *)
AllStagesFail(t) == ~C10_Expected(t).ok

(* C11 as stated: when decoding fails at every stage, the error raised to  *)
(* the caller contains a preview of the raw text, at most its first 500    *)
(* characters.                                                             *)
C11_Original ==
    (single # NotRun /\ AllStagesFail(text) /\ text # <<>>) =>
        /\ ~single.ok
        /\ \E n \in 1..(IF Len(text) < PreviewLen THEN Len(text) ELSE PreviewLen) :
              Contains(single.message, SubSeq(text, 1, n))

(* C11 as amended: when decoding fails at every stage, the parser raises   *)
(* ValueError, whose message is the fixed prefix followed by the decoder's *)
(* message and holds none of the raw text; the preview, the first 500      *)
(* characters of the raw text (all of it when shorter) followed by "...",  *)
(* is printed before the raise.                                            *)
C11_Amended ==
    (single # NotRun /\ AllStagesFail(text)) =>
        /\ ~single.ok
        /\ single.exc = "ValueError"
        /\ single.message = <<"Failed to parse agent response: ">> \o DecodeErrorMessage
        /\ \A i \in 1..Len(text) : ~Contains(single.message, <<text[i]>>)
        /\ Len(single.printed) <= PreviewLen + 2
        /\ single.printed =
              <<"Raw response preview: ">>
                  \o [i \in 1..(IF Len(text) < PreviewLen THEN Len(text) ELSE PreviewLen)
                         |-> text[i]]
                  \o <<"...">>

(* a text longer than the preview failed to parse and was printed cut *)
C11_Witness ==
    /\ single # NotRun
    /\ ~single.ok
    /\ Len(text) = PreviewLen + 1
    /\ Len(single.printed) = PreviewLen + 2

--------------------------------------------------------------------------
(* Claims about the batch parser.                                          *)

(* what the text given to the batch parser decodes to, after extraction *)
BatchDecoded(t) == json_loads(Strip(C10_SecondText(t)))

(* the kind of error raised for a text that is not JSON at all *)
SyntaxErrorKind == _parse_batch_response(<<TAG>>).exc

(* C12 as stated: a text decoding to a value that is not a list makes the  *)
(* batch parser raise an error that a handler of the syntax-error kind     *)
(* does not catch, and whose own kind of handler does not catch the syntax *)
(* error.                                                                  *)
C12_Original ==
    (batch # NotRun /\ BatchDecoded(text).ok /\ ~IsList(BatchDecoded(text).v)) =>
        /\ ~batch.ok
        /\ batch.exc # SyntaxErrorKind
        /\ ~Catches(SyntaxErrorKind, batch.exc)
        /\ ~Catches(batch.exc, SyntaxErrorKind)

(* C12 as amended: such a text makes the batch parser raise ValueError     *)
(* ("Response is not a JSON array"), and a text that is not JSON makes it  *)
(* raise json.JSONDecodeError, a subclass of ValueError: a handler of      *)
(* JSONDecodeError does not catch the type error, a handler of ValueError  *)
(* catches both.                                                           *)
C12_Amended ==
    /\ (batch # NotRun /\ BatchDecoded(text).ok /\ ~IsList(BatchDecoded(text).v)) =>
          /\ ~batch.ok
          /\ batch.exc = "ValueError"
          /\ batch.message = <<"Response is not a JSON array">>
          /\ batch.exc # SyntaxErrorKind
          /\ ~Catches(SyntaxErrorKind, batch.exc)
          /\ Catches(batch.exc, SyntaxErrorKind)
    /\ (batch # NotRun /\ ~BatchDecoded(text).ok) =>
          /\ ~batch.ok
          /\ batch.exc = "JSONDecodeError"
          /\ Catches("ValueError", batch.exc)

(* the batch parser was given a fenced JSON object and raised *)
C12_Witness ==
    /\ batch # NotRun
    /\ Contains(text, <<FENCE>>)
    /\ BatchDecoded(text).ok
    /\ IsDict(BatchDecoded(text).v)
    /\ ~batch.ok
    /\ batch.exc = "ValueError"

--------------------------------------------------------------------------
(* Claims about single-item mode.                                          *)

(* C13: when the answer of the generation call is not valid JSON after all *)
(* extraction attempts, analyze_competitor raises ValueError; the renderer *)
(* is never invoked, no page is returned, and the generation capability    *)
(* has been called exactly once.                                           *)
C13_AbortsOnParseError ==
    (answer # NotRun /\ answer.ok /\ AllStagesFail(answer.text)) =>
        /\ html1 = NotRun
        /\ ~Has("render")
        /\ outcome # "returned"
        /\ Len(calls) = 1
        /\ calls[1] = SinglePrompt(companies[1])
        /\ IF single = NotRun THEN pc = "single_parse" /\ outcome = "running"
           ELSE /\ ~single.ok
                /\ single.exc = "ValueError"
                /\ pc = "done"
                /\ outcome = "raised"
                /\ trace[Len(trace)] = Event("raise", "ValueError")

(* an answer that is not JSON made the analysis raise after its one call *)
C13_Witness ==
    /\ answer # NotRun
    /\ answer.ok
    /\ AllStagesFail(answer.text)
    /\ Contains(answer.text, <<FENCE>>)
    /\ outcome = "raised"
    /\ Len(calls) = 1

(* C14: in single mode every value _parse_response returns is a JSON       *)
(* object; an array or a scalar is never handed to the renderer.           *)
C14_Claim ==
    /\ (single # NotRun /\ single.ok) => IsDict(single.value)
    /\ html1 # NotRun => IsDict(single.value)

--------------------------------------------------------------------------
(* Claims about the fallback path and the saved reports.                   *)

(* C15: in fallback mode the output stored for an input whose generation,  *)
(* parse or render step failed is an error page holding what identifies    *)
(* the input (its name, its website when it has none, as line 48 shows it) *)
(* and the error message, and the next input is processed; the output      *)
(* stored for an input whose steps all succeeded is the full report.       *)
C15_Claim ==
    (FallbackEntered /\ pc = "fallback_call" /\ idx > 1) =>
        LET pair == companies[idx - 1]
            html == AnalyzeFrom(answer, CHOOSE d \in Dates : TRUE)
            page == Get(results, pair[2], Null)
        IN  /\ outcome # "raised"
            /\ page # Null
            /\ IF html.ok THEN IsFullReport(page)
               ELSE /\ IsErrorPage(page)
                    /\ page.company = ExpectedKey(pair).chars
                    /\ page.error = ErrorText(html)

--------------------------------------------------------------------------
(* Claims about the batch parser against the single-item parser.           *)

(* C17: for every text that decodes directly to a JSON array, a string of  *)
(* which may hold a triple backtick, _parse_batch_response returns that    *)
(* array, as _parse_response does.                                         *)
C17_Claim ==
    (batch # NotRun /\ json_loads(text).ok /\ IsList(json_loads(text).v)) =>
        /\ batch.ok
        /\ batch.value = json_loads(text).v
        /\ batch = single

--------------------------------------------------------------------------
(* Claims about the mapping of the primary path.                           *)

(* the name an element of the parsed array is stored under *)
C18_Key(element) == Get(element.items, "company_name", S("Unknown"))

(* the last element of the parsed array stored under a key *)
C18_Last(key) ==
    LET at == {i \in 1..Len(batch_data) : C18_Key(batch_data[i]) = key}
    IN  batch_data[CHOOSE i \in at : \A j \in at : j <= i]

(* C18: on the primary path the returned mapping follows from the parsed   *)
(* array, whatever the input list: its keys are the company_name values of *)
(* the elements ("Unknown" for an element without one), it has at most as  *)
(* many entries as the array has elements, and under each key it holds the *)
(* report rendered from the last element of that name.                     *)
C18_PrimaryMapping ==
    (outcome = "returned" /\ ~FallbackEntered) =>
        /\ {results[i][1] : i \in 1..Len(results)}
              = {C18_Key(batch_data[i]) : i \in 1..Len(batch_data)}
        /\ Len(results) = Cardinality({C18_Key(batch_data[i]) : i \in 1..Len(batch_data)})
        /\ Len(results) <= Len(batch_data)
        /\ \A i \in 1..Len(results) :
              \E d \in Dates :
                  /\ format_html_from_json(C18_Last(results[i][1]), d).ok
                  /\ results[i][2] = format_html_from_json(C18_Last(results[i][1]), d).html

(* the primary path returned one entry for two elements of the same name,  *)
(* rendered from the second, and for an input list of another length      *)
C18_Witness ==
    /\ outcome = "returned"
    /\ ~FallbackEntered
    /\ Len(batch_data) = 2
    /\ Len(results) = 1
    /\ Len(companies) = 1
    /\ C18_Key(batch_data[1]) = C18_Key(batch_data[2])
    /\ batch_data[1] # batch_data[2]
    /\ results[1][2].pricing_model = <<"Freemium">>

--------------------------------------------------------------------------
(* Claims about the saved reports.                                         *)

(* a company name lower-cased, each space replaced by an underscore *)
C16_Sanitized(chars) ==
    [i \in 1..Len(chars) |->
        CASE chars[i] = "S" -> "s"
          [] chars[i] = " " -> "_"
          [] OTHER -> chars[i]]

(* C16: every caller saving the reports of a batch saves each under the    *)
(* company name lower-cased, spaces replaced by underscores, followed by   *)
(* "_analysis.html"; a report saved without a filename goes to a name      *)
(* derived from the timestamp.                                             *)
C16_Claim ==
    saved # NotRun =>
        IF caller = "interactive_mode_single"
        THEN saved = <<"competitor_analysis_", now, ".html">>
        ELSE saved = C16_Sanitized(report_key.chars) \o <<"_analysis.html">>

====
